---- MODULE Spec2Model ----
(***************************************************************************)
(* Vector<T> over RawMemory<T> (cpp-advanced-vector).                      *)
(*                                                                         *)
(* A RawMemory owns one block of raw slots; the block is modelled inside   *)
(* its owner (buffer_.block), which is sound because RawMemory is          *)
(* move-only: a block has one owner at a time.  A slot is raw or holds one *)
(* live object.  Every public Vector operation is one action; an exception *)
(* thrown by operator new or by an element operation is the input f of     *)
(* the action (which fallible step throws), and the action computes the    *)
(* state the operation leaves behind when that exception propagates.       *)
(***************************************************************************)
EXTENDS Integers, Sequences, FiniteSets

\* ---------------------------------------------------------------- bounds
\* slots the heap can hold in the blocks of the Vector objects
MaxHeap == 4
\* objects the program may lose before it is stopped
MaxLeak == 2

Vectors == {"a", "b"}
\* the RawMemory objects of a program that uses RawMemory on its own
RawNames == {"r1", "r2"}
\* the two headers of the repository
Variants == {"part_000", "vector.h"}
\* the values of T told apart: T() is 0
Values == {0, 1}
Sizes == 0..MaxHeap

VARIABLES
    vec,          \* vec[v]: the Vector object v: data_ (a RawMemory) and size_
    alive,        \* the Vector objects whose lifetime has begun and not ended
    NothrowMove,  \* the element type T: is_nothrow_move_constructible_v<T> || !is_copy_constructible_v<T>
    Variant,      \* the header the program includes
    leaked,       \* live objects whose block was released without their destructor
    last,         \* the call just made, "none" once the caller has gone on
    pre,          \* vec before that call
    hist,         \* what has been called on the one object of SpecSeq since its construction / Reserve / Insert
    raw,          \* raw[r]: the RawMemory object r of SpecRaw, for each r within its lifetime
    rawPre,       \* raw before the call just made
    orphaned      \* blocks allocated, not released, and owned by no RawMemory

vars == <<vec, alive, NothrowMove, Variant, leaked, last, pre, hist, raw, rawPre, orphaned>>

\* ---------------------------------------------------------------- slots
Raw == [live |-> FALSE, known |-> FALSE, val |-> 0]
Obj(x) == [live |-> TRUE, known |-> TRUE, val |-> x]
\* a live object whose value is unspecified: moved-from, or the target of an assignment that threw
Unspec == [live |-> TRUE, known |-> FALSE, val |-> 0]

Min(x, y) == IF x < y THEN x ELSE y
Max(x, y) == IF x < y THEN y ELSE x

\* number of live objects in a block
RECURSIVE LiveCount(_)
LiveCount(block) ==
    IF block = <<>> THEN 0
    ELSE (IF block[1].live THEN 1 ELSE 0) + LiveCount(Tail(block))

\* ---------------------------------------------------------------- RawMemory
NullPtr == [null |-> TRUE, block |-> <<>>]

Allocate(n) ==
    IF n # 0 THEN [null |-> FALSE, block |-> [i \in 1..n |-> Raw]] ELSE NullPtr

RawMemoryDefault == [buffer_ |-> NullPtr, capacity_ |-> 0]

RawMemoryCtor(capacity) == [buffer_ |-> Allocate(capacity), capacity_ |-> capacity]

\* a move constructor that leaves other its buffer and capacity
RawMemoryMoveCtorShare(other) ==
    <<[buffer_ |-> other.buffer_, capacity_ |-> other.capacity_], other>>

\* RawMemory(RawMemory&& other): <<the new object, other afterwards>>
RawMemoryMoveCtor(other) ==
    <<[buffer_ |-> other.buffer_, capacity_ |-> other.capacity_],
      [buffer_ |-> NullPtr, capacity_ |-> 0]>>

\* a Swap that exchanges the buffers and not the capacities
RawMemorySwapBuffer(this, other) ==
    <<[buffer_ |-> other.buffer_, capacity_ |-> this.capacity_],
      [buffer_ |-> this.buffer_, capacity_ |-> other.capacity_]>>

\* RawMemory::Swap: <<this afterwards, other afterwards>>
RawMemorySwap(this, other) ==
    <<[buffer_ |-> other.buffer_, capacity_ |-> other.capacity_],
      [buffer_ |-> this.buffer_, capacity_ |-> this.capacity_]>>

\* RawMemory::operator=(RawMemory&& rhs) with this != &rhs: <<this afterwards, rhs
\* afterwards, blocks left without an owner>>; buffer_ is overwritten with
\* rhs.buffer_ and Deallocate is not called on the block it pointed to
RawMemoryMoveAssign(this, rhs) ==
    <<[buffer_ |-> rhs.buffer_, capacity_ |-> rhs.capacity_],
      [buffer_ |-> NullPtr, capacity_ |-> 0],
      IF this.buffer_.null THEN 0 ELSE 1>>

\* ~RawMemory: Deallocate(buffer_) releases the block; the objects still live in
\* it never get their destructor: the result is how many are lost that way
RawMemoryDtor(rm) == LiveCount(rm.buffer_.block)

\* ---------------------------------------------------------------- <memory> algorithms
\* slot i (from 0) of a block is block[i + 1]
ConstructAt(block, i, c) == [block EXCEPT ![i + 1] = c]

\* a destroy_at that destroys nothing
DestroyAtNone(block, i) == block

DestroyAt(block, i) == [block EXCEPT ![i + 1] = Raw]

DestroyN(block, first, n) ==
    [j \in DOMAIN block |-> IF first < j /\ j <= first + n THEN Raw ELSE block[j]]

\* how many of n fallible steps complete when step k throws (k = 0: none throws)
Done(n, k) == IF k >= 1 /\ k <= n THEN k - 1 ELSE n

Throws(n, k) == k >= 1 /\ k <= n

\* an uninitialized_copy_n that leaves the copies it made when a copy throws
UninitializedCopyNKeep(src, sfirst, n, dst, dfirst, k) ==
    [threw |-> Throws(n, k),
     to |-> [j \in DOMAIN dst |->
               IF dfirst < j /\ j <= dfirst + Done(n, k)
               THEN src[sfirst + (j - dfirst)] ELSE dst[j]]]

\* std::uninitialized_copy_n(src + sfirst, n, dst + dfirst); the k-th copy throws:
\* the copies made so far are destroyed and the exception leaves
UninitializedCopyN(src, sfirst, n, dst, dfirst, k) ==
    LET m == Done(n, k)
        placed == [j \in DOMAIN dst |->
                     IF dfirst < j /\ j <= dfirst + m
                     THEN src[sfirst + (j - dfirst)] ELSE dst[j]]
    IN  [threw |-> Throws(n, k),
         to |-> IF Throws(n, k) THEN DestroyN(placed, dfirst, m) ELSE placed]

\* std::uninitialized_move_n with a move constructor that does not throw:
\* the sources stay live, moved-from
UninitializedMoveN(src, sfirst, n, dst, dfirst) ==
    [to |-> [j \in DOMAIN dst |->
               IF dfirst < j /\ j <= dfirst + n
               THEN src[sfirst + (j - dfirst)] ELSE dst[j]],
     from |-> [j \in DOMAIN src |->
               IF sfirst < j /\ j <= sfirst + n THEN Unspec ELSE src[j]]]

\* std::uninitialized_value_construct_n(dst + dfirst, n); the k-th construction throws
UninitializedValueConstructN(dst, dfirst, n, k) ==
    LET m == Done(n, k)
        placed == [j \in DOMAIN dst |->
                     IF dfirst < j /\ j <= dfirst + m THEN Obj(0) ELSE dst[j]]
    IN  [threw |-> Throws(n, k),
         to |-> IF Throws(n, k) THEN DestroyN(placed, dfirst, m) ELSE placed]

\* ---------------------------------------------------------------- Vector
VectorDefault == [data_ |-> RawMemoryDefault, size_ |-> 0]

Size(vr) == vr.size_

Capacity(vr) == vr.data_.capacity_

Block(vr) == vr.data_.buffer_.block

\* the values of the elements [0, size)
Contents(vr) == [i \in 1..Min(vr.size_, Len(Block(vr))) |-> Block(vr)[i]]

\* the class invariant every member function relies on
Invariant(vr) ==
    /\ vr.size_ <= vr.data_.capacity_
    /\ Len(Block(vr)) = vr.data_.capacity_
    /\ vr.data_.buffer_.null = (vr.data_.capacity_ = 0)
    /\ \A j \in 1..Len(Block(vr)) : Block(vr)[j].live = (j <= vr.size_)

\* ---------------------------------------------------------------- exceptions
NoFail == [at |-> "none", k |-> 0]
Fail(at, k) == [at |-> at, k |-> k]
FailK(f, at) == IF f.at = at THEN f.k ELSE 0

\* the result of a member function: the object afterwards, whether an
\* exception left it, objects lost with a released block, returned position
Result(vr, threw, lost, ret) ==
    [v |-> vr, threw |-> threw, lost |-> lost, ret |-> ret, freed |-> "none"]

\* a MoveArgs that destroys each source as soon as it is copied
MoveArgsEager(from, ffirst, n, to, tfirst, k) ==
    IF NothrowMove
    THEN LET mv == UninitializedMoveN(from, ffirst, n, to, tfirst)
         IN  [threw |-> FALSE, to |-> mv.to, from |-> DestroyN(mv.from, ffirst, n)]
    ELSE LET cp == UninitializedCopyN(from, ffirst, n, to, tfirst, k)
         IN  [threw |-> cp.threw, to |-> cp.to, from |-> DestroyN(from, ffirst, Done(n, k))]

\* Vector::MoveArgs(from + ffirst, n, to + tfirst): the transfer policy, then
\* destroy_n on the sources
MoveArgs(from, ffirst, n, to, tfirst, k) ==
    IF NothrowMove
    THEN LET mv == UninitializedMoveN(from, ffirst, n, to, tfirst)
         IN  [threw |-> FALSE, to |-> mv.to, from |-> DestroyN(mv.from, ffirst, n)]
    ELSE LET cp == UninitializedCopyN(from, ffirst, n, to, tfirst, k)
         IN  IF cp.threw
             THEN [threw |-> TRUE, to |-> cp.to, from |-> from]
             ELSE [threw |-> FALSE, to |-> cp.to, from |-> DestroyN(from, ffirst, n)]

\* growth by one slot
GrowCapacityByOne(vr) == vr.size_ + 1

\* size_ == 0 ? 1 : size_ * 2, the capacity of the new block in EmplaceBack and Emplace
GrowCapacity(vr) == IF vr.size_ = 0 THEN 1 ELSE vr.size_ * 2

\* a test that finds the block full one element early
AtCapacityEarly(vr) == vr.size_ + 1 >= Capacity(vr)

\* size_ == Capacity(), the test of EmplaceBack
AtCapacity(vr) == vr.size_ = Capacity(vr)

\* a RawMemory holding the block blk
SetBlock(rm, blk) == [rm EXCEPT !.buffer_.block = blk]

\* an EmplaceBack that transfers the old elements before it constructs the new one
EmplaceBackTransferFirst(vr, x, f) ==
    IF AtCapacity(vr)
    THEN IF f.at = "alloc" THEN Result(vr, TRUE, 0, 0)
         ELSE
         LET new_data == RawMemoryCtor(GrowCapacity(vr))
             mv == MoveArgs(Block(vr), 0, vr.size_, new_data.buffer_.block, 0, FailK(f, "copy"))
             built == ConstructAt(mv.to, vr.size_, Obj(x))
             sw == RawMemorySwap(SetBlock(vr.data_, mv.from), SetBlock(new_data, built))
         IN  IF mv.threw
             THEN Result(vr, TRUE, RawMemoryDtor(SetBlock(new_data, mv.to)), 0)
             ELSE IF f.at = "ctor"
             THEN Result([vr EXCEPT !.data_ = SetBlock(vr.data_, mv.from)], TRUE,
                         RawMemoryDtor(SetBlock(new_data, mv.to)), 0)
             ELSE Result([data_ |-> sw[1], size_ |-> vr.size_ + 1], FALSE,
                         RawMemoryDtor(sw[2]), vr.size_)
    ELSE IF f.at = "ctor" THEN Result(vr, TRUE, 0, 0)
         ELSE Result([data_ |-> SetBlock(vr.data_, ConstructAt(Block(vr), vr.size_, Obj(x))),
                      size_ |-> vr.size_ + 1], FALSE, 0, vr.size_)

\* Vector::EmplaceBack(args...) constructing the value x
EmplaceBack(vr, x, f) ==
    IF AtCapacity(vr)
    THEN IF f.at = "alloc" THEN Result(vr, TRUE, 0, 0)
         ELSE
         LET new_data == RawMemoryCtor(GrowCapacity(vr)) IN
         IF f.at = "ctor" THEN Result(vr, TRUE, RawMemoryDtor(new_data), 0)
         ELSE
         LET built == ConstructAt(new_data.buffer_.block, vr.size_, Obj(x))
             mv == MoveArgs(Block(vr), 0, vr.size_, built, 0, FailK(f, "copy"))
         IN  IF mv.threw
             THEN \* catch (...): destroy_at(new_data + size_); throw; then ~new_data
                  Result([vr EXCEPT !.data_ = SetBlock(vr.data_, mv.from)], TRUE,
                         RawMemoryDtor(SetBlock(new_data, DestroyAt(mv.to, vr.size_))), 0)
             ELSE \* data_.Swap(new_data); ++size_; then ~new_data on the old block
                  LET sw == RawMemorySwap(SetBlock(vr.data_, mv.from), SetBlock(new_data, mv.to))
                  IN  Result([data_ |-> sw[1], size_ |-> vr.size_ + 1], FALSE,
                             RawMemoryDtor(sw[2]), vr.size_)
    ELSE IF f.at = "ctor" THEN Result(vr, TRUE, 0, 0)
         ELSE Result([data_ |-> SetBlock(vr.data_, ConstructAt(Block(vr), vr.size_, Obj(x))),
                      size_ |-> vr.size_ + 1], FALSE, 0, vr.size_)

\* the steps of EmplaceBack that can throw
EmplaceBackFails(vr) ==
    {NoFail, Fail("ctor", 0)}
    \cup (IF AtCapacity(vr)
          THEN {Fail("alloc", 0)}
               \cup (IF NothrowMove THEN {} ELSE {Fail("copy", k) : k \in 1..vr.size_})
          ELSE {})

\* a Reserve that releases the old block without destroying its elements
ReserveNoDestroy(vr, new_capacity, f) ==
    IF new_capacity <= Capacity(vr) THEN Result(vr, FALSE, 0, 0)
    ELSE IF f.at = "alloc" THEN Result(vr, TRUE, 0, 0)
    ELSE
    LET new_data == RawMemoryCtor(new_capacity) IN
    IF NothrowMove
    THEN LET mv == UninitializedMoveN(Block(vr), 0, vr.size_, new_data.buffer_.block, 0)
             sw == RawMemorySwap(SetBlock(vr.data_, mv.from), SetBlock(new_data, mv.to))
         IN  Result([data_ |-> sw[1], size_ |-> vr.size_], FALSE, RawMemoryDtor(sw[2]), 0)
    ELSE LET cp == UninitializedCopyN(Block(vr), 0, vr.size_, new_data.buffer_.block, 0,
                                      FailK(f, "copy"))
             sw == RawMemorySwap(vr.data_, SetBlock(new_data, cp.to))
         IN  IF cp.threw
             THEN Result(vr, TRUE, RawMemoryDtor(SetBlock(new_data, cp.to)), 0)
             ELSE Result([data_ |-> sw[1], size_ |-> vr.size_], FALSE, RawMemoryDtor(sw[2]), 0)

\* Vector::Reserve(new_capacity)
Reserve(vr, new_capacity, f) ==
    IF new_capacity <= Capacity(vr) THEN Result(vr, FALSE, 0, 0)
    ELSE IF f.at = "alloc" THEN Result(vr, TRUE, 0, 0)
    ELSE
    LET new_data == RawMemoryCtor(new_capacity) IN
    IF NothrowMove
    THEN LET mv == UninitializedMoveN(Block(vr), 0, vr.size_, new_data.buffer_.block, 0)
             sw == RawMemorySwap(SetBlock(vr.data_, DestroyN(mv.from, 0, vr.size_)),
                                 SetBlock(new_data, mv.to))
         IN  Result([data_ |-> sw[1], size_ |-> vr.size_], FALSE, RawMemoryDtor(sw[2]), 0)
    ELSE LET cp == UninitializedCopyN(Block(vr), 0, vr.size_, new_data.buffer_.block, 0,
                                      FailK(f, "copy"))
             sw == RawMemorySwap(SetBlock(vr.data_, DestroyN(Block(vr), 0, vr.size_)),
                                 SetBlock(new_data, cp.to))
         IN  IF cp.threw
             THEN Result(vr, TRUE, RawMemoryDtor(SetBlock(new_data, cp.to)), 0)
             ELSE Result([data_ |-> sw[1], size_ |-> vr.size_], FALSE, RawMemoryDtor(sw[2]), 0)

ReserveFails(vr, new_capacity) ==
    {NoFail}
    \cup (IF new_capacity > Capacity(vr)
          THEN {Fail("alloc", 0)}
               \cup (IF NothrowMove THEN {} ELSE {Fail("copy", k) : k \in 1..vr.size_})
          ELSE {})

\* a Resize that shrinks size_ without destroying the elements it drops
ResizeNoDestroy(vr, new_size, f) ==
    IF new_size < Size(vr)
    THEN Result([vr EXCEPT !.size_ = new_size], FALSE, 0, 0)
    ELSE IF new_size > Size(vr)
    THEN LET rs == Reserve(vr, new_size, f) IN
         IF rs.threw THEN rs
         ELSE LET vc == UninitializedValueConstructN(Block(rs.v), Size(rs.v),
                                                     new_size - Size(rs.v), FailK(f, "default"))
              IN  IF vc.threw
                  THEN Result([rs.v EXCEPT !.data_ = SetBlock(rs.v.data_, vc.to)], TRUE, rs.lost, 0)
                  ELSE Result([data_ |-> SetBlock(rs.v.data_, vc.to), size_ |-> new_size],
                              FALSE, rs.lost, 0)
    ELSE Result(vr, FALSE, 0, 0)

\* Vector::Resize(new_size)
Resize(vr, new_size, f) ==
    IF new_size < Size(vr)
    THEN Result([data_ |-> SetBlock(vr.data_, DestroyN(Block(vr), new_size, Size(vr) - new_size)),
                 size_ |-> new_size], FALSE, 0, 0)
    ELSE IF new_size > Size(vr)
    THEN LET rs == Reserve(vr, new_size, f) IN
         IF rs.threw THEN rs
         ELSE LET vc == UninitializedValueConstructN(Block(rs.v), Size(rs.v),
                                                     new_size - Size(rs.v), FailK(f, "default"))
              IN  IF vc.threw
                  THEN Result([rs.v EXCEPT !.data_ = SetBlock(rs.v.data_, vc.to)], TRUE, rs.lost, 0)
                  ELSE Result([data_ |-> SetBlock(rs.v.data_, vc.to), size_ |-> new_size],
                              FALSE, rs.lost, 0)
    ELSE Result(vr, FALSE, 0, 0)

ResizeFails(vr, new_size) ==
    IF new_size > Size(vr)
    THEN ReserveFails(vr, new_size) \cup {Fail("default", k) : k \in 1..(new_size - Size(vr))}
    ELSE {NoFail}

\* a PopBack that drops the last element without destroying it
PopBackKeep(vr) == Result([vr EXCEPT !.size_ = Size(vr) - 1], FALSE, 0, 0)

\* Vector::PopBack(), called with Size() > 0
PopBack(vr) == Resize(vr, Size(vr) - 1, NoFail)

\* a shift that writes x over the element at index and moves nothing else
ShiftRightOver(block, size, index, x, j, broke) ==
    [t1 \in DOMAIN block |->
        IF t1 - 1 = index THEN (IF broke THEN Unspec ELSE Obj(x)) ELSE block[t1]]

\* the non-reallocating branch of Emplace at index < size_: the block after the
\* temporary is built, the last element is move-constructed into slot size_, and
\* j of the move assignments are done; broke: the next assignment threw, which
\* leaves its target and (while shifting) its source unspecified
ShiftRight(block, size, index, x, j, broke) ==
    LET m == Min(j, size - 1 - index) IN  \* assignments done by move_backward
    [t1 \in DOMAIN block |->
        LET t == t1 - 1 IN
        IF t = size THEN block[t1]
        ELSE IF t >= size - m /\ t <= size - 1 THEN block[t]
        ELSE IF t = size - 1 - m
             THEN (IF j = size - index /\ ~broke THEN Obj(x) ELSE Unspec)
        ELSE IF broke /\ j < size - 1 - index /\ t = size - 2 - m THEN Unspec
        ELSE block[t1]]

\* Vector::Emplace(begin() + index, args...) constructing the value x
Emplace(vr, index, x, f) ==
    IF index = Size(vr) THEN EmplaceBack(vr, x, f)
    ELSE IF Size(vr) = Capacity(vr)
    THEN IF f.at = "alloc" THEN Result(vr, TRUE, 0, 0)
         ELSE
         LET new_data == RawMemoryCtor(GrowCapacity(vr)) IN
         IF f.at = "ctor" THEN Result(vr, TRUE, RawMemoryDtor(new_data), 0)
         ELSE
         LET built == ConstructAt(new_data.buffer_.block, index, Obj(x))
             k == FailK(f, "copy")
             left == MoveArgs(Block(vr), 0, index, built, 0, k)
             right == MoveArgs(left.from, index, Size(vr) - index, left.to, index + 1,
                               IF k > index THEN k - index ELSE 0)
             sw == RawMemorySwap(SetBlock(vr.data_, right.from), SetBlock(new_data, right.to))
         IN  IF left.threw
             THEN \* catch (...): destroy_at(new_data + index); throw
                  Result([vr EXCEPT !.data_ = SetBlock(vr.data_, left.from)], TRUE,
                         RawMemoryDtor(SetBlock(new_data, DestroyAt(left.to, index))), 0)
             ELSE IF right.threw
             THEN \* catch (...): destroy_n(new_data, index + 1); throw
                  Result([vr EXCEPT !.data_ = SetBlock(vr.data_, right.from)], TRUE,
                         RawMemoryDtor(SetBlock(new_data, DestroyN(right.to, 0, index + 1))), 0)
             ELSE Result([data_ |-> sw[1], size_ |-> vr.size_ + 1], FALSE,
                         RawMemoryDtor(sw[2]), index)
    ELSE IF f.at = "ctor" THEN Result(vr, TRUE, 0, 0)
    ELSE IF f.at = "move" THEN Result(vr, TRUE, 0, 0)
    ELSE LET n == Size(vr) - index
             k == FailK(f, "assign")
             atEnd == ConstructAt(Block(vr), Size(vr), Block(vr)[Size(vr)])
         IN  IF Throws(n, k)
             THEN Result([vr EXCEPT !.data_ =
                             SetBlock(vr.data_, ShiftRight(atEnd, Size(vr), index, x, k - 1, TRUE))],
                         TRUE, 0, 0)
             ELSE Result([data_ |-> SetBlock(vr.data_,
                                             ShiftRight(atEnd, Size(vr), index, x, n, FALSE)),
                          size_ |-> vr.size_ + 1], FALSE, 0, index)

EmplaceFails(vr, index) ==
    IF index = Size(vr) THEN EmplaceBackFails(vr)
    ELSE IF Size(vr) = Capacity(vr) THEN EmplaceBackFails(vr)
    ELSE {NoFail, Fail("ctor", 0)}
         \cup (IF NothrowMove THEN {} ELSE {Fail("move", 0)})
         \cup {Fail("assign", k) : k \in 1..(Size(vr) - index)}

\* a shift that stops after its first assignment
ShiftLeftOne(block, size, index, j, broke) ==
    [t1 \in DOMAIN block |-> IF t1 - 1 = index /\ j > 0 THEN block[t1 + 1] ELSE block[t1]]

\* a shift that moves nothing
ShiftLeftNone(block, size, index, j, broke) == block

\* std::move(begin() + index + 1, end(), begin() + index) in Erase: j assignments
\* are done; broke: the next one threw
ShiftLeft(block, size, index, j, broke) ==
    [t1 \in DOMAIN block |->
        LET t == t1 - 1 IN
        IF t >= index /\ t < index + j THEN block[t1 + 1]
        ELSE IF t = index + j /\ t < size /\ (j > 0 \/ broke) THEN Unspec
        ELSE IF broke /\ t = index + j + 1 /\ t < size THEN Unspec
        ELSE block[t1]]

\* Vector::Erase(begin() + index), called with index < size_
Erase(vr, index, f) ==
    LET n == Size(vr) - 1 - index
        k == FailK(f, "assign")
    IN  IF Throws(n, k)
        THEN Result([vr EXCEPT !.data_ =
                        SetBlock(vr.data_, ShiftLeft(Block(vr), Size(vr), index, k - 1, TRUE))],
                    TRUE, 0, 0)
        ELSE LET pb == PopBack([vr EXCEPT !.data_ =
                          SetBlock(vr.data_, ShiftLeft(Block(vr), Size(vr), index, n, FALSE))])
             IN  Result(pb.v, FALSE, pb.lost, index)

EraseFails(vr, index) == {NoFail} \cup {Fail("assign", k) : k \in 1..(Size(vr) - 1 - index)}

\* Vector::PushBack(const T&) and PushBack(T&&)
PushBack(vr, x, f) == EmplaceBack(vr, x, f)

\* Vector::Insert(pos, const T&) and Insert(pos, T&&)
Insert(vr, index, x, f) == Emplace(vr, index, x, f)

\* ---------------------------------------------------------------- vector.h
\* The second header differs from the first in PushBack, EmplaceBack, PopBack,
\* Emplace and Erase; the operators below are its versions of them.

\* operator delete(end()) in the catch of Emplace: the address handed to the
\* deallocation function is the start of the block the object still owns
\* ("block") or an address inside it ("inside")
DeleteEnd(r, vr) == [r EXCEPT !.freed = IF Size(vr) = 0 THEN "block" ELSE "inside"]

\* vector.h Vector::EmplaceBack(args...) constructing the value x
EmplaceBackH(vr, x, f) ==
    IF vr.size_ = Capacity(vr)
    THEN IF f.at = "alloc" THEN Result(vr, TRUE, 0, 0)
         ELSE
         LET new_data == RawMemoryCtor(GrowCapacity(vr)) IN
         IF f.at = "ctor" THEN Result(vr, TRUE, RawMemoryDtor(new_data), 0)
         ELSE
         LET built == ConstructAt(new_data.buffer_.block, vr.size_, Obj(x)) IN
         IF NothrowMove
         THEN LET mv == UninitializedMoveN(Block(vr), 0, vr.size_, built, 0)
                  sw == RawMemorySwap(SetBlock(vr.data_, DestroyN(mv.from, 0, vr.size_)),
                                      SetBlock(new_data, mv.to))
              IN  Result([data_ |-> sw[1], size_ |-> vr.size_ + 1], FALSE,
                         RawMemoryDtor(sw[2]), vr.size_)
         ELSE LET cp == UninitializedCopyN(Block(vr), 0, vr.size_, built, 0, FailK(f, "copy"))
                  sw == RawMemorySwap(SetBlock(vr.data_, DestroyN(Block(vr), 0, vr.size_)),
                                      SetBlock(new_data, cp.to))
              IN  IF cp.threw
                  THEN \* no handler: ~new_data releases the block
                       Result(vr, TRUE, RawMemoryDtor(SetBlock(new_data, cp.to)), 0)
                  ELSE Result([data_ |-> sw[1], size_ |-> vr.size_ + 1], FALSE,
                              RawMemoryDtor(sw[2]), vr.size_)
    ELSE IF f.at = "ctor" THEN Result(vr, TRUE, 0, 0)
         ELSE Result([data_ |-> SetBlock(vr.data_, ConstructAt(Block(vr), vr.size_, Obj(x))),
                      size_ |-> vr.size_ + 1], FALSE, 0, vr.size_)

\* vector.h Vector::PushBack(const T&) and PushBack(T&&): the statements of
\* EmplaceBack with the value in place of the arguments
PushBackH(vr, x, f) == EmplaceBackH(vr, x, f)

\* vector.h Vector::PopBack()
PopBackH(vr) == Resize(vr, Size(vr) - 1, NoFail)

\* vector.h Vector::Emplace(begin() + index, args...) constructing the value x
EmplaceH(vr, index, x, f) ==
    IF Size(vr) = Capacity(vr)
    THEN IF f.at = "alloc" THEN Result(vr, TRUE, 0, 0)
         ELSE
         LET new_data == RawMemoryCtor(GrowCapacity(vr)) IN
         IF f.at = "ctor" THEN Result(vr, TRUE, RawMemoryDtor(new_data), 0)
         ELSE
         LET built == ConstructAt(new_data.buffer_.block, index, Obj(x)) IN
         IF NothrowMove
         THEN LET left == UninitializedMoveN(Block(vr), 0, index, built, 0)
                  right == UninitializedMoveN(left.from, index, Size(vr) - index,
                                              left.to, index + 1)
                  sw == RawMemorySwap(SetBlock(vr.data_, DestroyN(right.from, 0, vr.size_)),
                                      SetBlock(new_data, right.to))
              IN  Result([data_ |-> sw[1], size_ |-> vr.size_ + 1], FALSE,
                         RawMemoryDtor(sw[2]), index)
         ELSE LET k == FailK(f, "copy")
                  left == UninitializedCopyN(Block(vr), 0, index, built, 0, k)
                  right == UninitializedCopyN(Block(vr), index, Size(vr) - index,
                                              left.to, index + 1,
                                              IF k > index THEN k - index ELSE 0)
                  sw == RawMemorySwap(SetBlock(vr.data_, DestroyN(Block(vr), 0, vr.size_)),
                                      SetBlock(new_data, right.to))
              IN  IF left.threw
                  THEN Result(vr, TRUE, RawMemoryDtor(SetBlock(new_data, left.to)), 0)
                  ELSE IF right.threw
                  THEN Result(vr, TRUE, RawMemoryDtor(SetBlock(new_data, right.to)), 0)
                  ELSE Result([data_ |-> sw[1], size_ |-> vr.size_ + 1], FALSE,
                              RawMemoryDtor(sw[2]), index)
    ELSE IF index = Size(vr)
    THEN IF f.at = "ctor" THEN DeleteEnd(Result(vr, TRUE, 0, 0), vr)
         ELSE Result([data_ |-> SetBlock(vr.data_, ConstructAt(Block(vr), vr.size_, Obj(x))),
                      size_ |-> vr.size_ + 1], FALSE, 0, index)
    ELSE IF f.at = "ctor" THEN DeleteEnd(Result(vr, TRUE, 0, 0), vr)
    ELSE IF f.at = "move" THEN DeleteEnd(Result(vr, TRUE, 0, 0), vr)
    ELSE LET n == Size(vr) - index
             k == FailK(f, "assign")
             atEnd == ConstructAt(Block(vr), Size(vr), Block(vr)[Size(vr)])
         IN  IF Throws(n, k)
             THEN DeleteEnd(Result([vr EXCEPT !.data_ =
                             SetBlock(vr.data_, ShiftRight(atEnd, Size(vr), index, x, k - 1, TRUE))],
                         TRUE, 0, 0), vr)
             ELSE Result([data_ |-> SetBlock(vr.data_,
                                             ShiftRight(atEnd, Size(vr), index, x, n, FALSE)),
                          size_ |-> vr.size_ + 1], FALSE, 0, index)

\* vector.h Vector::Erase(begin() + index), called with index < size_
EraseH(vr, index, f) ==
    LET n == Size(vr) - 1 - index
        k == FailK(f, "assign")
        shifted == ShiftLeft(Block(vr), Size(vr), index, n, FALSE)
    IN  IF Throws(n, k)
        THEN Result([vr EXCEPT !.data_ =
                        SetBlock(vr.data_, ShiftLeft(Block(vr), Size(vr), index, k - 1, TRUE))],
                    TRUE, 0, 0)
        ELSE Result([data_ |-> SetBlock(vr.data_, DestroyAt(shifted, Size(vr) - 1)),
                     size_ |-> vr.size_ - 1], FALSE, 0, index)

\* vector.h Vector::Insert(pos, const T&) and Insert(pos, T&&)
InsertH(vr, index, x, f) == EmplaceH(vr, index, x, f)

\* ---------------------------------------------------------------- both headers
\* a sized constructor that allocates one slot more than it fills
VectorSizedSpare(size, f) ==
    IF f.at = "alloc" THEN Result(VectorDefault, TRUE, 0, 0)
    ELSE LET data == RawMemoryCtor(size + 1)
             vc == UninitializedValueConstructN(data.buffer_.block, 0, size, FailK(f, "default"))
         IN  IF vc.threw
             THEN Result(VectorDefault, TRUE, RawMemoryDtor(SetBlock(data, vc.to)), 0)
             ELSE Result([data_ |-> SetBlock(data, vc.to), size_ |-> size], FALSE, 0, 0)

\* Vector::Vector(size_t size); an exception leaves no object
VectorSized(size, f) ==
    IF f.at = "alloc" THEN Result(VectorDefault, TRUE, 0, 0)
    ELSE LET data == RawMemoryCtor(size)
             vc == UninitializedValueConstructN(data.buffer_.block, 0, size, FailK(f, "default"))
         IN  IF vc.threw
             THEN Result(VectorDefault, TRUE, RawMemoryDtor(SetBlock(data, vc.to)), 0)
             ELSE Result([data_ |-> SetBlock(data, vc.to), size_ |-> size], FALSE, 0, 0)

VectorSizedFails(size) ==
    {NoFail} \cup (IF size # 0 THEN {Fail("alloc", 0)} ELSE {})
             \cup {Fail("default", k) : k \in 1..size}

\* a copy constructor that allocates other's capacity
VectorCopyCapacity(other, f) ==
    IF f.at = "alloc" THEN Result(VectorDefault, TRUE, 0, 0)
    ELSE LET data == RawMemoryCtor(Capacity(other))
             cp == UninitializedCopyN(Block(other), 0, other.size_, data.buffer_.block, 0,
                                      FailK(f, "copy"))
         IN  IF cp.threw
             THEN Result(VectorDefault, TRUE, RawMemoryDtor(SetBlock(data, cp.to)), 0)
             ELSE Result([data_ |-> SetBlock(data, cp.to), size_ |-> other.size_], FALSE, 0, 0)

\* Vector::Vector(const Vector& other); an exception leaves no object
VectorCopy(other, f) ==
    IF f.at = "alloc" THEN Result(VectorDefault, TRUE, 0, 0)
    ELSE LET data == RawMemoryCtor(other.size_)
             cp == UninitializedCopyN(Block(other), 0, other.size_, data.buffer_.block, 0,
                                      FailK(f, "copy"))
         IN  IF cp.threw
             THEN Result(VectorDefault, TRUE, RawMemoryDtor(SetBlock(data, cp.to)), 0)
             ELSE Result([data_ |-> SetBlock(data, cp.to), size_ |-> other.size_], FALSE, 0, 0)

VectorCopyFails(other) ==
    {NoFail} \cup (IF other.size_ # 0 THEN {Fail("alloc", 0)} ELSE {})
             \cup {Fail("copy", k) : k \in 1..other.size_}

\* a destructor that releases the block without destroying the elements
VectorDtorRelease(vr) == RawMemoryDtor(vr.data_)

\* Vector::~Vector, then ~RawMemory of data_: the objects lost
VectorDtor(vr) == RawMemoryDtor(SetBlock(vr.data_, DestroyN(Block(vr), 0, vr.size_)))

\* Vector::Vector(Vector&& other): <<the new object, other afterwards>>
VectorMove(other) ==
    LET mv == RawMemoryMoveCtor(other.data_)
    IN  <<[data_ |-> mv[1], size_ |-> other.size_], [data_ |-> mv[2], size_ |-> 0]>>

\* Vector::Swap(other): <<this afterwards, other afterwards>>
Swap(this, other) ==
    LET sw == RawMemorySwap(this.data_, other.data_)
    IN  <<[data_ |-> sw[1], size_ |-> other.size_], [data_ |-> sw[2], size_ |-> this.size_]>>

\* a move assignment that takes rhs's storage and leaves rhs empty
MoveAssignTake(this, rhs) == <<rhs, VectorDefault>>

\* Vector::operator=(Vector&& rhs): <<this afterwards, rhs afterwards>>
MoveAssign(this, rhs) == Swap(this, rhs)

\* a std::copy that assigns nothing
StdCopyNone(src, n, dst, k) == [threw |-> Throws(n, k), to |-> dst]

\* std::copy(src, src + n, dst); the k-th copy assignment throws and leaves its
\* target unspecified
StdCopy(src, n, dst, k) ==
    [threw |-> Throws(n, k),
     to |-> [j \in DOMAIN dst |->
               IF j <= Done(n, k) THEN src[j]
               ELSE IF Throws(n, k) /\ j = k THEN Unspec
               ELSE dst[j]]]

\* a copy assignment that always builds a fresh copy and swaps it in
CopyAssignFresh(this, other, f) ==
    LET other_copy == VectorCopy(other, f)
        sw == Swap(this, other_copy.v)
    IN  IF other_copy.threw THEN Result(this, TRUE, other_copy.lost, 0)
        ELSE Result(sw[1], FALSE, VectorDtor(sw[2]), 0)

\* Vector::operator=(const Vector& other) with this != &other
CopyAssign(this, other, f) ==
    IF other.size_ <= Capacity(this)
    THEN IF this.size_ <= other.size_
         THEN LET as == StdCopy(Block(other), this.size_, Block(this), FailK(f, "assign"))
                  cp == UninitializedCopyN(Block(other), this.size_, other.size_ - this.size_,
                                           as.to, this.size_, FailK(f, "copy"))
              IN  IF as.threw
                  THEN Result([this EXCEPT !.data_ = SetBlock(this.data_, as.to)], TRUE, 0, 0)
                  ELSE IF cp.threw
                  THEN Result([this EXCEPT !.data_ = SetBlock(this.data_, cp.to)], TRUE, 0, 0)
                  ELSE Result([data_ |-> SetBlock(this.data_, cp.to), size_ |-> other.size_],
                              FALSE, 0, 0)
         ELSE LET as == StdCopy(Block(other), other.size_, Block(this), FailK(f, "assign"))
              IN  IF as.threw
                  THEN Result([this EXCEPT !.data_ = SetBlock(this.data_, as.to)], TRUE, 0, 0)
                  ELSE Result([data_ |-> SetBlock(this.data_,
                                   DestroyN(as.to, other.size_, this.size_ - other.size_)),
                               size_ |-> other.size_], FALSE, 0, 0)
    ELSE LET other_copy == VectorCopy(other, f)
             sw == Swap(this, other_copy.v)
         IN  IF other_copy.threw THEN Result(this, TRUE, other_copy.lost, 0)
             ELSE Result(sw[1], FALSE, VectorDtor(sw[2]), 0)

CopyAssignFails(this, other) ==
    IF other.size_ <= Capacity(this)
    THEN {NoFail} \cup {Fail("assign", k) : k \in 1..Min(this.size_, other.size_)}
                  \cup {Fail("copy", k) : k \in 1..(other.size_ - this.size_)}
    ELSE VectorCopyFails(other)

\* ---------------------------------------------------------------- an argument that is an element
\* a read of element j made after the elements from index on were shifted right
ArgValueLate(vr, index, j) ==
    IF j > index THEN Block(vr)[j].val ELSE Block(vr)[j + 1].val

\* the value T(value) constructs in PushBack(value) / Insert(begin() + index, value)
\* when value is a const reference to element j of the object itself: in every
\* branch of both headers the construction from the argument is the first
\* statement that touches an element, so it reads element j as it is before the
\* call
ArgValue(vr, index, j) == Block(vr)[j + 1].val

\* ---------------------------------------------------------------- calls outside the contract
\* part_000 guards its preconditions with assert; a build with assertions on is
\* modelled, in which a failed assert ends the program (outcome "assert").
\* vector.h has no assert; its behaviour outside the preconditions is not
\* modelled.
Abort == Fail("assert", 0)

\* undefined behaviour that ended the program some other way
Crash == Fail("ub", 0)

\* assert(index < size_) of Vector::operator[]
AtOutcome(vr, index) == IF index < vr.size_ THEN NoFail ELSE Abort

\* assert(Size()) of Vector::PopBack
PopBackOutcome(vr) == IF Size(vr) # 0 THEN NoFail ELSE Abort

\* assert(pos >= begin() && pos <= end()) of Vector::Emplace
EmplaceOutcome(vr, index) == IF index >= 0 /\ index <= Size(vr) THEN NoFail ELSE Abort

\* Vector::Erase(begin() + index) called with index outside [0, size_):
\* assert(pos >= begin() && pos <= end()) lets pos == end() pass; std::move is
\* then given the range [end() + 1, end()), which is undefined: u = "skip" when
\* the library's loop runs no iteration, "wild" when it runs off the block; after
\* a skipped loop PopBack is called
EraseOutcome(vr, index, u) ==
    IF ~(index >= 0 /\ index <= Size(vr)) THEN Abort
    ELSE IF u = "wild" THEN Crash
    ELSE PopBackOutcome(vr)

EraseOut(vr, index, u) ==
    IF EraseOutcome(vr, index, u) = NoFail
    THEN LET pb == PopBack(vr) IN Result(pb.v, FALSE, pb.lost, index)
    ELSE Result(vr, TRUE, 0, 0)

\* ---------------------------------------------------------------- the observed call
\* last: the call the caller has just made (operation, object, source object, the
\* step that threw, size / capacity / index argument, value argument, objects
\* lost, returned position, address wrongly handed to operator delete); pre: the
\* objects before that call
Call(op, v, src, f, n, x, lost, ret) ==
    [op |-> op, v |-> v, src |-> src, outcome |-> f.at, k |-> f.k, n |-> n, x |-> x,
     lost |-> lost, ret |-> ret, freed |-> "none"]

NoCall == Call("none", "a", "a", NoFail, 0, 0, 0, 0)

\* ---------------------------------------------------------------- history
\* Off: the history is not kept (Spec); SpecSeq keeps it for its one object
Off == [kind |-> "off", n |-> 0, cap0 |-> 0, sz0 |-> 0, vals |-> <<>>]
Other == [kind |-> "other", n |-> 0, cap0 |-> 0, sz0 |-> 0, vals |-> <<>>]
SinceDefault(vals) == [kind |-> "default", n |-> 0, cap0 |-> 0, sz0 |-> 0, vals |-> vals]
SinceReserve(n, cap0, sz0) == [kind |-> "reserve", n |-> n, cap0 |-> cap0, sz0 |-> sz0, vals |-> <<>>]
SinceInsert(kind, i, cap0, vals) == [kind |-> kind, n |-> i, cap0 |-> cap0, sz0 |-> 0, vals |-> vals]

\* the history after the call c took the object from before to after
Track(h, c, before, after) ==
    IF h.kind = "off" THEN Off
    ELSE IF c.outcome # "none" THEN Other
    ELSE IF c.op = "Vector" THEN SinceDefault(<<>>)
    ELSE IF c.op = "Reserve" THEN SinceReserve(c.n, Capacity(after), Size(after))
    ELSE IF c.op = "PushBack"
         THEN (IF h.kind = "default" THEN SinceDefault(Append(h.vals, c.x))
               ELSE IF h.kind = "reserve" THEN h
               ELSE Other)
    ELSE IF c.op = "Insert" THEN SinceInsert("insert", c.n, Capacity(before), Contents(before))
    ELSE IF c.op = "Erase" /\ h.kind = "insert" /\ h.n = c.n
         THEN SinceInsert("insert_erase", c.n, h.cap0, h.vals)
    ELSE Other

\* ---------------------------------------------------------------- actions
\* no RawMemory object of its own: the programs of Spec and SpecSeq use Vector
NoRaw == [r \in {} |-> RawMemoryDefault]

Init ==
    /\ vec = [v \in Vectors |-> VectorDefault]
    /\ alive = Vectors
    /\ NothrowMove \in BOOLEAN
    /\ Variant \in Variants
    /\ leaked = 0
    /\ last = NoCall
    /\ pre = vec
    /\ hist = Off
    /\ raw = NoRaw
    /\ rawPre = NoRaw
    /\ orphaned = 0

\* a member function is called on an object within its lifetime
Callable(v) == v \in alive

\* the caller is between calls; a program that lost MaxLeak objects is stopped
Ready == last.op = "none" /\ leaked < MaxLeak

\* the blocks of the Vector objects fit the heap
HeapFits == Capacity(vec["a"]) + Capacity(vec["b"]) <= MaxHeap

\* the call on v has returned or thrown
Settled(v) ==
    /\ HeapFits'
    /\ hist' = Track(hist, last', vec[v], vec'[v])
    /\ UNCHANGED <<raw, rawPre, orphaned>>

\* the effect of a call on the one object v
Effect(v, r, op, f, n, x) ==
    /\ vec' = [vec EXCEPT ![v] = r.v]
    /\ leaked' = leaked + r.lost
    /\ last' = [Call(op, v, v, f, n, x, r.lost, r.ret) EXCEPT !.freed = r.freed]
    /\ pre' = vec
    /\ UNCHANGED <<alive, NothrowMove, Variant>>
    /\ Settled(v)

CallDefaultCtor(v) ==
    /\ Ready
    /\ v \notin alive
    /\ vec' = [vec EXCEPT ![v] = VectorDefault]
    /\ alive' = alive \cup {v}
    /\ last' = Call("Vector", v, v, NoFail, 0, 0, 0, 0)
    /\ pre' = vec
    /\ UNCHANGED <<leaked, NothrowMove, Variant>>
    /\ Settled(v)

\* a constructor that throws leaves no object
CallSizedCtor(v, size, f) ==
    /\ Ready
    /\ v \notin alive
    /\ LET r == VectorSized(size, f) IN
        /\ vec' = [vec EXCEPT ![v] = r.v]
        /\ alive' = IF r.threw THEN alive ELSE alive \cup {v}
        /\ leaked' = leaked + r.lost
        /\ last' = Call("VectorSized", v, v, f, size, 0, r.lost, 0)
    /\ pre' = vec
    /\ UNCHANGED <<NothrowMove, Variant>>
    /\ Settled(v)

CallCopyCtor(v, o, f) ==
    /\ Ready
    /\ v \notin alive
    /\ o # v
    /\ Callable(o)
    /\ LET r == VectorCopy(vec[o], f) IN
        /\ vec' = [vec EXCEPT ![v] = r.v]
        /\ alive' = IF r.threw THEN alive ELSE alive \cup {v}
        /\ leaked' = leaked + r.lost
        /\ last' = Call("VectorCopy", v, o, f, 0, 0, r.lost, 0)
    /\ pre' = vec
    /\ UNCHANGED <<NothrowMove, Variant>>
    /\ Settled(v)

CallMoveCtor(v, o) ==
    /\ Ready
    /\ v \notin alive
    /\ o # v
    /\ Callable(o)
    /\ LET r == VectorMove(vec[o]) IN
        vec' = [vec EXCEPT ![v] = r[1], ![o] = r[2]]
    /\ alive' = alive \cup {v}
    /\ last' = Call("VectorMove", v, o, NoFail, 0, 0, 0, 0)
    /\ pre' = vec
    /\ UNCHANGED <<leaked, NothrowMove, Variant>>
    /\ Settled(v)

\* the storage of an object whose lifetime has ended is not part of the state
CallDtor(v) ==
    /\ Ready
    /\ Callable(v)
    /\ vec' = [vec EXCEPT ![v] = VectorDefault]
    /\ alive' = alive \ {v}
    /\ leaked' = leaked + VectorDtor(vec[v])
    /\ last' = Call("~Vector", v, v, NoFail, 0, 0, VectorDtor(vec[v]), 0)
    /\ pre' = vec
    /\ UNCHANGED <<NothrowMove, Variant>>
    /\ Settled(v)

CallCopyAssign(v, o, f) ==
    /\ Ready
    /\ Callable(v)
    /\ Callable(o)
    /\ IF v = o
       THEN /\ f = NoFail
            /\ last' = Call("CopyAssign", v, o, f, 0, 0, 0, 0)
            /\ UNCHANGED <<vec, leaked>>
       ELSE /\ LET r == CopyAssign(vec[v], vec[o], f) IN
                /\ vec' = [vec EXCEPT ![v] = r.v]
                /\ leaked' = leaked + r.lost
                /\ last' = Call("CopyAssign", v, o, f, 0, 0, r.lost, 0)
    /\ pre' = vec
    /\ UNCHANGED <<alive, NothrowMove, Variant>>
    /\ Settled(v)

CallMoveAssign(v, o) ==
    /\ Ready
    /\ Callable(v)
    /\ Callable(o)
    /\ LET r == MoveAssign(vec[v], vec[o]) IN
        vec' = IF v = o THEN [vec EXCEPT ![v] = r[1]] ELSE [vec EXCEPT ![v] = r[1], ![o] = r[2]]
    /\ last' = Call("MoveAssign", v, o, NoFail, 0, 0, 0, 0)
    /\ pre' = vec
    /\ UNCHANGED <<alive, leaked, NothrowMove, Variant>>
    /\ Settled(v)

CallSwap(v, o) ==
    /\ Ready
    /\ Callable(v)
    /\ Callable(o)
    /\ LET r == Swap(vec[v], vec[o]) IN
        vec' = IF v = o THEN [vec EXCEPT ![v] = r[1]] ELSE [vec EXCEPT ![v] = r[1], ![o] = r[2]]
    /\ last' = Call("Swap", v, o, NoFail, 0, 0, 0, 0)
    /\ pre' = vec
    /\ UNCHANGED <<alive, leaked, NothrowMove, Variant>>
    /\ Settled(v)

CallReserve(v, n, f) ==
    /\ Ready
    /\ Callable(v)
    /\ Effect(v, Reserve(vec[v], n, f), "Reserve", f, n, 0)

CallResize(v, n, f) ==
    /\ Ready
    /\ Callable(v)
    /\ Effect(v, Resize(vec[v], n, f), "Resize", f, n, 0)

CallPushBack(v, x, f) ==
    /\ Ready
    /\ Callable(v)
    /\ Effect(v, IF Variant = "vector.h" THEN PushBackH(vec[v], x, f) ELSE PushBack(vec[v], x, f),
              "PushBack", f, 0, x)

CallPopBack(v) ==
    /\ Ready
    /\ Callable(v)
    /\ Size(vec[v]) > 0
    /\ Effect(v, IF Variant = "vector.h" THEN PopBackH(vec[v]) ELSE PopBack(vec[v]),
              "PopBack", NoFail, 0, 0)

CallInsert(v, index, x, f) ==
    /\ Ready
    /\ Callable(v)
    /\ index <= Size(vec[v])
    /\ Effect(v, IF Variant = "vector.h" THEN InsertH(vec[v], index, x, f)
                 ELSE Insert(vec[v], index, x, f),
              "Insert", f, index, x)

CallErase(v, index, f) ==
    /\ Ready
    /\ Callable(v)
    /\ index < Size(vec[v])
    /\ Effect(v, IF Variant = "vector.h" THEN EraseH(vec[v], index, f) ELSE Erase(vec[v], index, f),
              "Erase", f, index, 0)

\* operator[](index): reads the element; index = size_ is outside the contract
CallAt(v, index) ==
    /\ Ready
    /\ Callable(v)
    /\ Variant = "part_000"
    /\ index <= Size(vec[v])
    /\ Effect(v, Result(vec[v], AtOutcome(vec[v], index) # NoFail, 0, index),
              "operator[]", AtOutcome(vec[v], index), index, 0)

\* PopBack() on an empty object
CallPopBackEmpty(v) ==
    /\ Ready
    /\ Callable(v)
    /\ Variant = "part_000"
    /\ Size(vec[v]) = 0
    /\ Effect(v, Result(vec[v], PopBackOutcome(vec[v]) # NoFail, 0, 0),
              "PopBack", PopBackOutcome(vec[v]), 0, 0)

\* Insert(begin() + index, x) with index outside [0, size_]
CallInsertOut(v, index, x) ==
    /\ Ready
    /\ Callable(v)
    /\ Variant = "part_000"
    /\ index < 0 \/ index > Size(vec[v])
    /\ Effect(v, Result(vec[v], EmplaceOutcome(vec[v], index) # NoFail, 0, 0),
              "Insert", EmplaceOutcome(vec[v], index), index, x)

\* Erase(begin() + index) with index outside [0, size_)
CallEraseOut(v, index, u) ==
    /\ Ready
    /\ Callable(v)
    /\ Variant = "part_000"
    /\ index < 0 \/ index >= Size(vec[v])
    /\ Effect(v, EraseOut(vec[v], index, u), "Erase", EraseOutcome(vec[v], index, u), index, 0)

\* PushBack(v[j]): the argument is a reference to element j of v
CallPushBackAlias(v, j, f) ==
    /\ Ready
    /\ Callable(v)
    /\ j < Size(vec[v])
    /\ LET x == ArgValue(vec[v], Size(vec[v]), j) IN
        Effect(v, IF Variant = "vector.h" THEN PushBackH(vec[v], x, f) ELSE PushBack(vec[v], x, f),
               "PushBackAlias", f, Size(vec[v]), j)

\* Insert(begin() + index, v[j]): the argument is a reference to element j of v
CallInsertAlias(v, index, j, f) ==
    /\ Ready
    /\ Callable(v)
    /\ index <= Size(vec[v])
    /\ j < Size(vec[v])
    /\ LET x == ArgValue(vec[v], index, j) IN
        Effect(v, IF Variant = "vector.h" THEN InsertH(vec[v], index, x, f)
                  ELSE Insert(vec[v], index, x, f),
               "InsertAlias", f, index, j)

\* the caller goes on to its next call
Forget ==
    /\ last.op # "none"
    /\ last.outcome = "none"
    /\ last' = NoCall
    /\ pre' = vec
    /\ rawPre' = raw
    /\ UNCHANGED <<vec, alive, NothrowMove, Variant, leaked, hist, raw, orphaned>>

\* an exception that leaves a call ends the run: the state it leaves is the
\* state the caller observes
Next ==
    \/ \E v \in Vectors : CallDefaultCtor(v)
    \/ \E v \in Vectors, n \in Sizes : \E f \in VectorSizedFails(n) : CallSizedCtor(v, n, f)
    \/ \E v, o \in Vectors : \E f \in VectorCopyFails(vec[o]) : CallCopyCtor(v, o, f)
    \/ \E v, o \in Vectors : CallMoveCtor(v, o)
    \/ \E v \in Vectors : CallDtor(v)
    \/ \E v, o \in Vectors : \E f \in CopyAssignFails(vec[v], vec[o]) : CallCopyAssign(v, o, f)
    \/ \E v, o \in Vectors : CallMoveAssign(v, o)
    \/ \E v, o \in Vectors : CallSwap(v, o)
    \/ \E v \in Vectors, n \in Sizes : \E f \in ReserveFails(vec[v], n) : CallReserve(v, n, f)
    \/ \E v \in Vectors, n \in Sizes : \E f \in ResizeFails(vec[v], n) : CallResize(v, n, f)
    \/ \E v \in Vectors, x \in Values : \E f \in EmplaceBackFails(vec[v]) : CallPushBack(v, x, f)
    \/ \E v \in Vectors : CallPopBack(v)
    \/ \E v \in Vectors, x \in Values : \E i \in 0..Size(vec[v]) :
          \E f \in EmplaceFails(vec[v], i) : CallInsert(v, i, x, f)
    \/ \E v \in Vectors : \E i \in 0..(Size(vec[v]) - 1) :
          \E f \in EraseFails(vec[v], i) : CallErase(v, i, f)
    \/ \E v \in Vectors : \E i \in 0..Size(vec[v]) : CallAt(v, i)
    \/ \E v \in Vectors : CallPopBackEmpty(v)
    \/ \E v \in Vectors, x \in Values : \E i \in {-1, Size(vec[v]) + 1} : CallInsertOut(v, i, x)
    \/ \E v \in Vectors, u \in {"skip", "wild"} :
          \E i \in {-1, Size(vec[v]), Size(vec[v]) + 1} : CallEraseOut(v, i, u)
    \/ Forget

Spec == Init /\ [][Next]_vars

\* ---------------------------------------------------------------- one object and its history
InitSeq ==
    /\ vec = [v \in Vectors |-> VectorDefault]
    /\ alive = {"a"}
    /\ NothrowMove \in BOOLEAN
    /\ Variant \in Variants
    /\ leaked = 0
    /\ last = NoCall
    /\ pre = vec
    /\ hist = SinceDefault(<<>>)
    /\ raw = NoRaw
    /\ rawPre = NoRaw
    /\ orphaned = 0

NextSeq ==
    \/ CallDefaultCtor("a")
    \/ CallDtor("a")
    \/ \E n \in Sizes : \E f \in ReserveFails(vec["a"], n) : CallReserve("a", n, f)
    \/ \E n \in Sizes : \E f \in ResizeFails(vec["a"], n) : CallResize("a", n, f)
    \/ \E x \in Values : \E f \in EmplaceBackFails(vec["a"]) : CallPushBack("a", x, f)
    \/ CallPopBack("a")
    \/ \E x \in Values : \E i \in 0..Size(vec["a"]) :
          \E f \in EmplaceFails(vec["a"], i) : CallInsert("a", i, x, f)
    \/ \E i \in 0..(Size(vec["a"]) - 1) :
          \E f \in EraseFails(vec["a"], i) : CallErase("a", i, f)
    \/ Forget

SpecSeq == InitSeq /\ [][NextSeq]_vars

\* ---------------------------------------------------------------- one object and references into it
\* the calls of SpecSeq, and PushBack / Insert with an element of the object
\* itself as the argument
NextAlias ==
    \/ NextSeq
    \/ \E j \in 0..(Size(vec["a"]) - 1) :
          \E f \in EmplaceBackFails(vec["a"]) : CallPushBackAlias("a", j, f)
    \/ \E i \in 0..Size(vec["a"]), j \in 0..(Size(vec["a"]) - 1) :
          \E f \in EmplaceFails(vec["a"], i) : CallInsertAlias("a", i, j, f)

SpecAlias == InitSeq /\ [][NextAlias]_vars

\* ---------------------------------------------------------------- RawMemory on its own
\* A program that constructs, moves, swaps and destroys RawMemory objects
\* directly; the class is the same in both headers.
InitRaw ==
    /\ vec = [v \in Vectors |-> VectorDefault]
    /\ alive = {}
    /\ NothrowMove = TRUE
    /\ Variant \in Variants
    /\ leaked = 0
    /\ last = NoCall
    /\ pre = vec
    /\ hist = Off
    /\ raw = [r \in RawNames |-> RawMemoryDefault]
    /\ rawPre = raw
    /\ orphaned = 0

\* a program that left MaxLeak blocks without an owner is stopped
ReadyRaw == last.op = "none" /\ orphaned < MaxLeak

RawCapacity(rw, r) == IF r \in DOMAIN rw THEN rw[r].capacity_ ELSE 0

RawHeapFits(rw) == RawCapacity(rw, "r1") + RawCapacity(rw, "r2") <= MaxHeap

\* raw with the object r set to rm
RawWith(rw, r, rm) == [q \in DOMAIN rw \cup {r} |-> IF q = r THEN rm ELSE rw[q]]

\* the effect of a call that leaves the RawMemory objects rw and dropped blocks
RawEffect(rw, op, r, o, f, n, dropped) ==
    /\ raw' = rw
    /\ RawHeapFits(rw)
    /\ rawPre' = raw
    /\ orphaned' = orphaned + dropped
    /\ last' = Call(op, r, o, f, n, 0, dropped, 0)
    /\ UNCHANGED <<vec, alive, NothrowMove, Variant, leaked, pre, hist>>

CallRawDefaultCtor(r) ==
    /\ ReadyRaw
    /\ r \notin DOMAIN raw
    /\ RawEffect(RawWith(raw, r, RawMemoryDefault), "RawMemory", r, r, NoFail, 0, 0)

\* RawMemory r(capacity); operator new may throw, which leaves no object
CallRawCtor(r, capacity, f) ==
    /\ ReadyRaw
    /\ r \notin DOMAIN raw
    /\ RawEffect(IF f.at = "alloc" THEN raw ELSE RawWith(raw, r, RawMemoryCtor(capacity)),
                 "RawMemorySized", r, r, f, capacity, 0)

\* RawMemory r(std::move(o))
CallRawMoveCtor(r, o) ==
    /\ ReadyRaw
    /\ r \notin DOMAIN raw
    /\ o \in DOMAIN raw
    /\ LET mv == RawMemoryMoveCtor(raw[o])
       IN  RawEffect(RawWith(RawWith(raw, r, mv[1]), o, mv[2]), "RawMove", r, o, NoFail, 0, 0)

\* r = std::move(o); if (this != &rhs) guards the self-assignment
CallRawMoveAssign(r, o) ==
    /\ ReadyRaw
    /\ r \in DOMAIN raw
    /\ o \in DOMAIN raw
    /\ IF r = o
       THEN RawEffect(raw, "RawMoveAssign", r, o, NoFail, 0, 0)
       ELSE LET mv == RawMemoryMoveAssign(raw[r], raw[o])
            IN  RawEffect(RawWith(RawWith(raw, r, mv[1]), o, mv[2]),
                          "RawMoveAssign", r, o, NoFail, 0, mv[3])

\* r.Swap(o)
CallRawSwap(r, o) ==
    /\ ReadyRaw
    /\ r \in DOMAIN raw
    /\ o \in DOMAIN raw
    /\ LET sw == RawMemorySwap(raw[r], raw[o])
       IN  RawEffect(RawWith(RawWith(raw, r, sw[1]), o, sw[2]), "RawSwap", r, o, NoFail, 0, 0)

\* ~RawMemory releases the block the object owns
CallRawDtor(r) ==
    /\ ReadyRaw
    /\ r \in DOMAIN raw
    /\ RawEffect([q \in DOMAIN raw \ {r} |-> raw[q]], "~RawMemory", r, r, NoFail, 0, 0)

NextRaw ==
    \/ \E r \in RawNames : CallRawDefaultCtor(r)
    \/ \E r \in RawNames, n \in Sizes :
          \E f \in {NoFail} \cup (IF n # 0 THEN {Fail("alloc", 0)} ELSE {}) : CallRawCtor(r, n, f)
    \/ \E r, o \in RawNames : CallRawMoveCtor(r, o)
    \/ \E r, o \in RawNames : CallRawMoveAssign(r, o)
    \/ \E r, o \in RawNames : CallRawSwap(r, o)
    \/ \E r \in RawNames : CallRawDtor(r)
    \/ Forget

SpecRaw == InitRaw /\ [][NextRaw]_vars

\* ---------------------------------------------------------------- properties
\* the call just made returned
Returned(op) == last.op = op /\ last.outcome = "none"

\* the sequence s with c inserted before index i (from 0)
InsertAt(s, i, c) == SubSeq(s, 1, i) \o <<c>> \o SubSeq(s, i + 1, Len(s))

\* the live objects holding the values vals
Objs(vals) == [i \in 1..Len(vals) |-> Obj(vals[i])]

RECURSIVE Pow2From(_, _)
Pow2From(p, n) == IF p >= n THEN p ELSE Pow2From(2 * p, n)

\* 0 for n = 0, else the smallest power of two >= n
PowCeil(n) == IF n = 0 THEN 0 ELSE Pow2From(1, n)

\* C1: after any sequence of calls, also one that ends with a failure to
\* construct or copy an element, every object has size <= capacity, one live
\* element in each slot of [0, size) and none in [size, capacity)
C1_Invariant ==
    last.outcome \in {"none", "alloc", "ctor", "copy", "default", "move"}
        => \A v \in alive : Invariant(vec[v])

\* C2: with the header part_000, a copy that throws in the transfer of a
\* reallocating PushBack or of a Reserve(n), n > capacity, leaves the object as
\* it was, every old element live, and loses no object of the new storage
C2_StrongGuarantee ==
    (Variant = "part_000" /\ last.op \in {"PushBack", "Reserve"} /\ last.outcome = "copy")
        => /\ vec[last.v] = pre[last.v]
           /\ Invariant(vec[last.v])
           /\ last.lost = 0
           /\ leaked = 0

C2_Witness ==
    /\ Variant = "part_000"
    /\ last.op = "PushBack"
    /\ last.outcome = "copy"
    /\ last.k = 2
    /\ Size(pre[last.v]) = Capacity(pre[last.v])
    /\ Size(pre[last.v]) >= 2

\* a reallocating Emplace of part_000 at an index in [0, size) whose transfer of
\* the right partition threw
RightPartitionThrew ==
    /\ Variant = "part_000"
    /\ last.op = "Insert"
    /\ last.outcome = "copy"
    /\ Size(pre[last.v]) = Capacity(pre[last.v])
    /\ last.n < Size(pre[last.v])
    /\ last.k > last.n

\* C3: with the header part_000, in a reallocating Emplace at an index in
\* [0, size), a failure in the transfer of the right partition [index, size)
\* leaves the object as it was, no old element destroyed, and nothing of the
\* new storage is lost
C3_RightPartitionRollback ==
    RightPartitionThrew
        => /\ vec[last.v] = pre[last.v]
           /\ last.lost = 0

\* C4 as claimed: after b = move(a), whatever b held, a has size 0 and capacity
\* 0 and b holds what a held
C4_SourceEmpty ==
    Returned("MoveAssign") /\ last.v # last.src
        => /\ Size(vec[last.src]) = 0
           /\ Capacity(vec[last.src]) = 0
           /\ vec[last.v] = pre[last.src]

\* C4 amended: after b = move(a), b holds what a held and a holds what b held,
\* so a has size 0 and capacity 0 exactly when b had
C4_Exchange ==
    Returned("MoveAssign") /\ last.v # last.src
        => /\ vec[last.v] = pre[last.src]
           /\ vec[last.src] = pre[last.v]
           /\ (Size(vec[last.src]) = 0 /\ Capacity(vec[last.src]) = 0)
                 <=> (Size(pre[last.v]) = 0 /\ Capacity(pre[last.v]) = 0)

C4_Witness ==
    /\ Returned("MoveAssign")
    /\ last.v # last.src
    /\ Size(pre[last.v]) > 0
    /\ Size(pre[last.src]) > 0
    /\ pre[last.v] # pre[last.src]

\* C5: Vector b(move(a)) gives b the size, capacity and elements a had, leaves a
\* with size 0, capacity 0 and a null block, and touches no element
C5_MoveConstruction ==
    Returned("VectorMove")
        => /\ last.v \in alive
           /\ vec[last.v] = pre[last.src]
           /\ Size(vec[last.src]) = 0
           /\ Capacity(vec[last.src]) = 0
           /\ vec[last.src].data_.buffer_ = NullPtr
           /\ last.lost = 0

C5_Witness ==
    /\ Returned("VectorMove")
    /\ Size(vec[last.v]) >= 2
    /\ Capacity(vec[last.v]) > Size(vec[last.v])

\* C6: after N PushBack calls on a default-constructed object the size is N, the
\* elements are the pushed values in order, and the capacity is 0 for N = 0 and
\* else the smallest power of two >= N
C6_Doubling ==
    hist.kind = "default"
        => /\ Size(vec["a"]) = Len(hist.vals)
           /\ Contents(vec["a"]) = Objs(hist.vals)
           /\ Capacity(vec["a"]) = PowCeil(Len(hist.vals))

C6_Witness ==
    /\ hist.kind = "default"
    /\ Len(hist.vals) = 3
    /\ hist.vals[1] # hist.vals[2]
    /\ Capacity(vec["a"]) = 4

\* C7 as claimed: for any object, after Reserve(n) the capacity is >= n and
\* stays what it was through up to n PushBack calls
C7_NPushes ==
    hist.kind = "reserve" /\ Size(vec["a"]) - hist.sz0 <= hist.n
        => /\ hist.cap0 >= hist.n
           /\ Capacity(vec["a"]) = hist.cap0

\* C7 amended: after Reserve(n) the capacity is >= n and stays what it was
\* through the PushBack calls that keep size <= n: up to n - size of them, with
\* size the size at the Reserve
C7_RoomPushes ==
    hist.kind = "reserve" /\ Size(vec["a"]) - hist.sz0 <= hist.n - hist.sz0
        => /\ hist.cap0 >= hist.n
           /\ Capacity(vec["a"]) = hist.cap0

C7_Witness ==
    /\ hist.kind = "reserve"
    /\ hist.sz0 >= 1
    /\ hist.cap0 = hist.n
    /\ Size(vec["a"]) = hist.n
    /\ Size(vec["a"]) - hist.sz0 >= 2

\* C8: a copy constructed from a has a's size and elements and capacity equal
\* to a's size; a is unchanged; a copy that throws leaves no object and loses
\* none of the copies made
C8_CopyConstruction ==
    last.op = "VectorCopy"
        => /\ vec[last.src] = pre[last.src]
           /\ last.lost = 0
           /\ last.outcome = "none"
                 => /\ last.v \in alive
                    /\ Size(vec[last.v]) = Size(pre[last.src])
                    /\ Contents(vec[last.v]) = Contents(pre[last.src])
                    /\ Capacity(vec[last.v]) = Size(pre[last.src])
                    /\ Invariant(vec[last.v])
           /\ last.outcome # "none" => last.v \notin alive

C8_Witness ==
    /\ Returned("VectorCopy")
    /\ Size(pre[last.src]) >= 1
    /\ Capacity(pre[last.src]) > Size(pre[last.src]) + 1
    /\ Capacity(vec[last.v]) = Size(pre[last.src])
    /\ Contents(vec[last.v]) = Contents(pre[last.src])

\* C9: Insert(begin() + i, v) followed by Erase(begin() + i) restores the
\* elements and the size, whether the Insert reallocated or not
C9_InsertErase ==
    hist.kind = "insert_erase"
        => /\ Contents(vec["a"]) = hist.vals
           /\ Size(vec["a"]) = Len(hist.vals)

C9_Witness ==
    /\ hist.kind = "insert_erase"
    /\ hist.n >= 1
    /\ hist.n < Len(hist.vals)
    /\ hist.vals[1] # hist.vals[2]
    /\ Capacity(vec["a"]) > hist.cap0

\* C10: Emplace / Insert of v at index i of s gives s[0..i) ++ [v] ++ s[i..size),
\* one element more, returns begin() + i, and keeps the capacity when size <
\* capacity, else makes it max(1, 2 * capacity)
C10_Insert ==
    Returned("Insert")
        => /\ Contents(vec[last.v]) = InsertAt(Contents(pre[last.v]), last.n, Obj(last.x))
           /\ Size(vec[last.v]) = Size(pre[last.v]) + 1
           /\ last.ret = last.n
           /\ Capacity(vec[last.v]) =
                 IF Size(pre[last.v]) < Capacity(pre[last.v])
                 THEN Capacity(pre[last.v])
                 ELSE Max(1, 2 * Capacity(pre[last.v]))
           /\ Invariant(vec[last.v])

C10_Witness ==
    /\ Returned("Insert")
    /\ last.n >= 1
    /\ last.n < Size(pre[last.v]) - 1
    /\ Size(pre[last.v]) < Capacity(pre[last.v])
    /\ pre[last.v].data_.buffer_.block[1].val # last.x

\* the sequence s without its element at index i (from 0)
RemoveAt(s, i) == SubSeq(s, 1, i) \o SubSeq(s, i + 2, Len(s))

\* C11: a successful Erase at index i of s gives s[0..i) ++ s[i+1..size), one
\* element fewer, the same capacity, one object fewer (the tail slot is
\* vacated), and returns begin() + i
C11_Erase ==
    Returned("Erase") /\ last.n >= 0 /\ last.n < Size(pre[last.v])
        => /\ Contents(vec[last.v]) = RemoveAt(Contents(pre[last.v]), last.n)
           /\ Size(vec[last.v]) = Size(pre[last.v]) - 1
           /\ Capacity(vec[last.v]) = Capacity(pre[last.v])
           /\ LiveCount(Block(vec[last.v])) = LiveCount(Block(pre[last.v])) - 1
           /\ Block(vec[last.v])[Size(pre[last.v])] = Raw
           /\ last.ret = last.n
           /\ last.lost = 0
           /\ Invariant(vec[last.v])

C11_Witness ==
    /\ Returned("Erase")
    /\ last.n = 0
    /\ Size(pre[last.v]) >= 3
    /\ Block(pre[last.v])[2] # Block(pre[last.v])[3]
    /\ Capacity(pre[last.v]) > Size(pre[last.v])

\* C12: Resize(n) of s: n < size gives s[0..n) with the same capacity and the
\* elements [n, size) destroyed; n > size gives s followed by n - size
\* default-valued elements; n = size changes nothing; the size is n and the
\* elements below min(n, old size) are unchanged
C12_Resize ==
    Returned("Resize")
        => LET old == pre[last.v]
               new == vec[last.v]
               n == last.n
           IN  /\ Size(new) = n
               /\ n < Size(old)
                     => /\ Contents(new) = SubSeq(Contents(old), 1, n)
                        /\ Capacity(new) = Capacity(old)
                        /\ \A j \in (n + 1)..Size(old) : Block(new)[j] = Raw
               /\ n > Size(old)
                     => Contents(new) = Contents(old) \o [i \in 1..(n - Size(old)) |-> Obj(0)]
               /\ n = Size(old) => new = old
               /\ \A i \in 1..Min(n, Size(old)) : Block(new)[i] = Block(old)[i]
               /\ last.lost = 0
               /\ Invariant(new)

C12_Witness ==
    /\ Returned("Resize")
    /\ Size(pre[last.v]) = 2
    /\ last.n = 4
    /\ Capacity(pre[last.v]) < 4
    /\ Block(pre[last.v])[1] # Block(pre[last.v])[2]

\* C13: a Resize(n), n > size, in which the default construction of a new
\* element throws leaves the object as it was: size, capacity and old elements,
\* also when n > capacity before the call; the new elements built are destroyed
C13_ResizeStrong ==
    last.op = "Resize" /\ last.outcome = "default"
        => /\ vec[last.v] = pre[last.v]
           /\ last.lost = 0

\* C14: after target = source the target has the size and elements of the
\* source and the source is unchanged; the capacity is unchanged when the
\* source's size fits it and else becomes the source's size; self-assignment
\* changes nothing
C14_CopyAssign ==
    Returned("CopyAssign")
        => LET old == pre[last.v]
               new == vec[last.v]
               source == pre[last.src]
           IN  IF last.v = last.src THEN vec = pre
               ELSE /\ Size(new) = Size(source)
                    /\ Contents(new) = Contents(source)
                    /\ vec[last.src] = source
                    /\ Capacity(new) = IF Size(source) <= Capacity(old)
                                       THEN Capacity(old) ELSE Size(source)
                    /\ last.lost = 0
                    /\ Invariant(new)

C14_Witness ==
    /\ Returned("CopyAssign")
    /\ last.v # last.src
    /\ Size(pre[last.v]) >= 1
    /\ Size(pre[last.src]) > Size(pre[last.v])
    /\ Size(pre[last.src]) <= Capacity(pre[last.v])
    /\ Block(pre[last.v])[1] # Block(pre[last.src])[1]

\* the copy assignment took the branch that builds a fresh copy, and that failed
FreshCopyFailed ==
    /\ last.op = "CopyAssign"
    /\ last.v # last.src
    /\ Size(pre[last.src]) > Capacity(pre[last.v])
    /\ last.outcome \in {"alloc", "copy"}

\* C15: when target = source has to build a fresh copy (source's size > target's
\* capacity) and the allocation or an element copy fails, target and source are
\* as before the call and nothing of the partial copy is lost
C15_CopyAssignStrong ==
    FreshCopyFailed
        => /\ vec = pre
           /\ last.lost = 0
           /\ \A v \in alive : Invariant(vec[v])

C15_Witness ==
    /\ FreshCopyFailed
    /\ last.outcome = "copy"
    /\ last.k = 2
    /\ Size(pre[last.v]) >= 1

\* C16: Vector(n) has size = capacity = n and n default-valued elements (a
\* null block for n = 0); when the default construction of an element throws,
\* the elements built are destroyed and the block released: no object and no
\* live element is left
C16_SizedConstruction ==
    last.op = "VectorSized"
        => /\ last.outcome = "none"
              => /\ last.v \in alive
                 /\ Size(vec[last.v]) = last.n
                 /\ Capacity(vec[last.v]) = last.n
                 /\ Contents(vec[last.v]) = [i \in 1..last.n |-> Obj(0)]
                 /\ (last.n = 0) => vec[last.v].data_.buffer_ = NullPtr
                 /\ Invariant(vec[last.v])
           /\ last.outcome # "none"
              => /\ last.v \notin alive
                 /\ vec[last.v] = VectorDefault
           /\ last.lost = 0

C16_Witness ==
    /\ last.op = "VectorSized"
    /\ last.outcome = "default"
    /\ last.k >= 2
    /\ last.n > last.k

\* C17: Swap gives each object the size, capacity and elements the other had
\* and touches no element; swapping twice restores both
C17_Swap ==
    /\ Returned("Swap")
          => /\ vec[last.v] = pre[last.src]
             /\ vec[last.src] = pre[last.v]
             /\ last.lost = 0
    /\ \A v, o \in alive :
          LET once == Swap(vec[v], vec[o])
          IN  Swap(once[1], once[2]) = <<vec[v], vec[o]>>

C17_Witness ==
    /\ Returned("Swap")
    /\ last.v # last.src
    /\ Size(pre[last.v]) >= 1
    /\ Size(pre[last.src]) > Size(pre[last.v])
    /\ Capacity(pre[last.src]) > Capacity(pre[last.v])

\* C18: PopBack on a non-empty object never fails, destroys the last element,
\* makes the size one less, and leaves the capacity, the block and the other
\* elements as they were
C18_PopBack ==
    last.op = "PopBack" /\ Size(pre[last.v]) > 0
        => LET old == pre[last.v]
               new == vec[last.v]
           IN  /\ last.outcome = "none"
               /\ Size(new) = Size(old) - 1
               /\ Capacity(new) = Capacity(old)
               /\ Block(new) = DestroyAt(Block(old), Size(old) - 1)
               /\ Contents(new) = SubSeq(Contents(old), 1, Size(old) - 1)
               /\ last.lost = 0
               /\ Invariant(new)

C18_Witness ==
    /\ Returned("PopBack")
    /\ Size(pre[last.v]) >= 2
    /\ Capacity(pre[last.v]) > Size(pre[last.v])

\* C20: Reserve(n) with n <= capacity changes nothing; a successful Reserve(n)
\* with n > capacity makes the capacity n, keeps the size and the elements, and
\* destroys every old element in the old block before the block is released
C20_Reserve ==
    Returned("Reserve")
        => LET old == pre[last.v]
               new == vec[last.v]
           IN  IF last.n <= Capacity(old) THEN vec = pre /\ last.lost = 0
               ELSE /\ Capacity(new) = last.n
                    /\ Size(new) = Size(old)
                    /\ Contents(new) = Contents(old)
                    /\ last.lost = 0
                    /\ Invariant(new)

C20_Witness ==
    /\ Returned("Reserve")
    /\ Size(pre[last.v]) >= 2
    /\ last.n > Capacity(pre[last.v])
    /\ Block(pre[last.v])[1] # Block(pre[last.v])[2]

\* the call just made was outside the contract of the member function
ContractViolated ==
    /\ Variant = "part_000"
    /\ \/ last.op = "operator[]" /\ last.n >= Size(pre[last.v])
       \/ last.op = "PopBack" /\ Size(pre[last.v]) = 0
       \/ last.op = "Insert" /\ (last.n < 0 \/ last.n > Size(pre[last.v]))
       \/ last.op = "Erase" /\ (last.n < 0 \/ last.n >= Size(pre[last.v]))

\* C19: every call outside the contract (operator[] with i >= size, PopBack on
\* an empty object, Emplace outside [begin, end], Erase outside [begin, end),
\* Erase(end()) on a non-empty object among them) trips an assertion before
\* anything changes (stated for the runs that undefined behaviour does not end
\* some other way)
C19_Asserted ==
    ContractViolated /\ last.outcome # "ub"
        => /\ last.outcome = "assert"
           /\ vec = pre

\* a move construction or move assignment threw in the shift of Erase or of the
\* non-reallocating branch of Emplace / Insert of part_000
ShiftThrew ==
    /\ Variant = "part_000"
    /\ last.op \in {"Insert", "Erase"}
    /\ last.outcome \in {"move", "assign"}

\* C21: a move construction or move assignment that throws in the in-place shift
\* of Erase or of a non-reallocating Emplace / Insert leaves the object
\* consistent: size <= capacity, a live element in every slot of [0, size), none
\* in [size, capacity), and no element that the destructor would leave without
\* its destructor call
C21_ShiftConsistent ==
    ShiftThrew
        => /\ Invariant(vec[last.v])
           /\ last.lost = 0
           /\ VectorDtor(vec[last.v]) = 0

\* C22: through any sequence of calls that all succeed, every element
\* constructed is in a slot of [0, size) of a live object until it is destroyed
\* and no block is released with a live element in it; the destructor finds a
\* live element in each of its size slots and none elsewhere, destroys them,
\* releases the block, and leaves the object without storage
C22_Lifetime ==
    last.outcome = "none"
        => /\ leaked = 0
           /\ \A v \in alive : Invariant(vec[v])
           /\ \A v \in Vectors \ alive : vec[v] = VectorDefault
           /\ Returned("~Vector")
                 => /\ last.v \notin alive
                    /\ Invariant(pre[last.v])
                    /\ LiveCount(Block(pre[last.v])) = Size(pre[last.v])
                    /\ last.lost = 0

C22_Witness ==
    /\ Returned("~Vector")
    /\ Size(pre[last.v]) >= 2
    /\ Capacity(pre[last.v]) > Size(pre[last.v])
    /\ alive = {}
    /\ leaked = 0

\* a PushBack / EmplaceBack on a full object
ReallocatingEmplaceBack ==
    /\ last.op = "PushBack"
    /\ Size(pre[last.v]) = Capacity(pre[last.v])

\* C23: a reallocating EmplaceBack allocates max(1, 2 * capacity) slots, then
\* constructs the new element at index size of the new block, then transfers
\* [0, size), destroys the old elements, swaps the blocks and increments size:
\* a failed allocation or a constructor of the new element that throws leaves
\* size, capacity and every old element as they were (none read into, moved
\* from or destroyed) and loses nothing; a call that returns leaves the old
\* elements in [0, size), the new one at index size, and no old element live
\* in the released block
C23_EmplaceBackOrder ==
    ReallocatingEmplaceBack
        => LET old == pre[last.v]
               new == vec[last.v]
           IN  /\ last.outcome \in {"alloc", "ctor"}
                     => /\ new = old
                        /\ last.lost = 0
               /\ last.outcome = "none"
                     => /\ Capacity(new) = Max(1, 2 * Capacity(old))
                        /\ Size(new) = Size(old) + 1
                        /\ Block(new)[Size(old) + 1] = Obj(last.x)
                        /\ SubSeq(Contents(new), 1, Size(old)) = Contents(old)
                        /\ last.ret = Size(old)
                        /\ last.lost = 0
                        /\ Invariant(new)

C23_Witness ==
    /\ ReallocatingEmplaceBack
    /\ last.outcome = "ctor"
    /\ NothrowMove
    /\ Size(pre[last.v]) >= 2
    /\ Block(pre[last.v])[1] # Block(pre[last.v])[2]

\* a reallocating Emplace of part_000 at an index in [0, size) whose copy
\* transfer of the left partition [0, index) threw
LeftPartitionThrew ==
    /\ Variant = "part_000"
    /\ last.op = "Insert"
    /\ last.outcome = "copy"
    /\ Size(pre[last.v]) = Capacity(pre[last.v])
    /\ last.n < Size(pre[last.v])
    /\ last.k <= last.n

\* C24: with the header part_000, in a reallocating Emplace at an index in
\* [0, size), a copy that throws in the transfer of the left partition leaves
\* the object as it was, every old element live, and nothing of the new block
\* (the target element, the copies made) is lost when the block is released
C24_LeftPartitionRollback ==
    LeftPartitionThrew
        => /\ vec[last.v] = pre[last.v]
           /\ Invariant(vec[last.v])
           /\ last.lost = 0
           /\ leaked = 0

C24_Witness ==
    /\ LeftPartitionThrew
    /\ last.k = 2
    /\ last.n = 2
    /\ Block(pre[last.v])[1] # Block(pre[last.v])[2]

\* the constructor of the new value threw in a non-reallocating Emplace / Insert
\* at an index in [0, size)
TemporaryThrew ==
    /\ last.op = "Insert"
    /\ last.outcome = "ctor"
    /\ Size(pre[last.v]) < Capacity(pre[last.v])
    /\ last.n >= 0
    /\ last.n < Size(pre[last.v])

\* C25: in a non-reallocating Emplace at pos != end the new value is built as a
\* temporary before any slot is written: when its constructor throws, the size,
\* the capacity and the elements are as before the call, no slot at or beyond
\* size holds a live element, and the storage has not been handed to a
\* deallocation function
C25_TemporaryFirst ==
    TemporaryThrew
        => /\ vec[last.v] = pre[last.v]
           /\ Invariant(vec[last.v])
           /\ last.lost = 0
           /\ last.freed = "none"

\* C26: PushBack / Insert of a const reference to an element of the object
\* itself, reallocating or not, with either header: the inserted element has the
\* value the aliased element had before the call, and the other elements keep
\* their values, those from the index on one slot further
C26_Alias ==
    LET old == pre[last.v]
        new == vec[last.v]
        aliased == Block(old)[last.x + 1]
    IN  /\ Returned("PushBackAlias")
              => /\ Contents(new) = Append(Contents(old), aliased)
                 /\ Size(new) = Size(old) + 1
                 /\ Invariant(new)
        /\ Returned("InsertAlias")
              => /\ Contents(new) = InsertAt(Contents(old), last.n, aliased)
                 /\ Size(new) = Size(old) + 1
                 /\ Invariant(new)

C26_Witness ==
    /\ Returned("InsertAlias")
    /\ Size(pre[last.v]) < Capacity(pre[last.v])
    /\ last.n = 0
    /\ last.x = 1
    /\ Block(pre[last.v])[1] # Block(pre[last.v])[2]
    /\ Block(vec[last.v])[1] = Block(pre[last.v])[2]

\* the calls that never lower the capacity
Growing ==
    {"PushBack", "PushBackAlias", "PopBack", "Insert", "InsertAlias", "Erase",
     "Resize", "Reserve", "CopyAssign"}

\* C27: PushBack, EmplaceBack, PopBack, Emplace / Insert, Erase, Resize, Reserve
\* and copy assignment, returning or failing, leave every object a capacity not
\* below the one it had; an object whose capacity went down was swapped, move
\* assigned or moved from
C27_CapacityMonotone ==
    /\ last.op \in Growing
          => \A v \in Vectors : Capacity(vec[v]) >= Capacity(pre[v])
    /\ \A v \in alive :
          Capacity(vec[v]) < Capacity(pre[v]) => last.op \in {"Swap", "MoveAssign", "VectorMove"}

C27_Witness ==
    /\ Returned("CopyAssign")
    /\ last.v # last.src
    /\ Size(pre[last.src]) < Size(pre[last.v])
    /\ Capacity(pre[last.src]) < Size(pre[last.v])
    /\ Capacity(vec[last.v]) = Capacity(pre[last.v])
    /\ Size(vec[last.v]) = Size(pre[last.src])

\* C28: dst = move(src) on two RawMemory objects gives dst the block and the
\* capacity src had, leaves src with a null block and capacity 0, and leaves no
\* block without an owner: the block dst owned is released or still owned
C28_RawMoveAssign ==
    Returned("RawMoveAssign") /\ last.v # last.src
        => /\ raw[last.v] = rawPre[last.src]
           /\ raw[last.src] = RawMemoryDefault
           /\ last.lost = 0
           /\ orphaned = 0

\* an exception left the non-reallocating branch of Emplace / Insert of vector.h
NonReallocatingThrewH ==
    /\ Variant = "vector.h"
    /\ last.op \in {"Insert", "InsertAlias"}
    /\ Size(pre[last.v]) < Capacity(pre[last.v])
    /\ last.outcome \in {"ctor", "move", "assign"}

\* C29: with the header vector.h, an exception in the non-reallocating branch of
\* Emplace leaves the object its block: no address, neither the start of the
\* block nor one inside it, has been handed to operator delete, so that the
\* destructor releases the block once
C29_StorageKept ==
    NonReallocatingThrewH
        => /\ last.freed = "none"
           /\ vec[last.v].data_.buffer_.null = FALSE
           /\ Capacity(vec[last.v]) = Capacity(pre[last.v])

\* a copy threw in the transfer of a reallocating PushBack / EmplaceBack /
\* Emplace of vector.h
ReallocatingCopyThrewH ==
    /\ Variant = "vector.h"
    /\ last.op \in {"PushBack", "PushBackAlias", "Insert", "InsertAlias"}
    /\ Size(pre[last.v]) = Capacity(pre[last.v])
    /\ last.outcome = "copy"

\* C30: with the header vector.h, when a copy throws in the transfer of a
\* reallocating PushBack, EmplaceBack or Emplace, the new element built in the
\* new block (and for Emplace the left partition already copied) is destroyed
\* before the block is released: no object is left without its destructor call
C30_NewElementDestroyed ==
    ReallocatingCopyThrewH
        => /\ last.lost = 0
           /\ leaked = 0

====
